---- MODULE Spec2Model ----
(***************************************************************************)
(* The todo-list backend of backend/src/index.js: the express middleware   *)
(* chain (metrics counter, GET /metrics, JSON body parser, static files,   *)
(* the five API routes), the start-up sequence db.init().then(listen)      *)
(* .catch(exit 1) and the signal-driven gracefulShutdown.                  *)
(*                                                                         *)
(* One action is one callback of the Node.js event loop, run to completion *)
(* together with the promise reactions it schedules, with one exception:   *)
(* the GET /metrics handler returns at its await with nothing sent, and    *)
(* the promise reaction that sends the answer runs only after the work     *)
(* already due in the same turn of the loop: requests pipelined on the     *)
(* same connection are accepted, their bodies end and their handlers are   *)
(* called first.  Accepting a request, dispatching it, answering it and    *)
(* sending a /metrics answer are therefore separate actions that           *)
(* interleave; a signal or a settled teardown is a later turn of the loop  *)
(* and waits for the /metrics answer.                                      *)
(***************************************************************************)
EXTENDS Naturals, Sequences, FiniteSets

\* Bounds of the model.
MaxReq == 2        \* requests accepted over the life of the process
MaxSignals == 2    \* termination signals delivered to the process

VARIABLES
    initCalls,       \* number of db.init() invocations
    initState,       \* the db.init() promise: "pending", "resolved", "rejected"
    listening,       \* app.listen(3000) has been called
    logged,          \* console.error(err) has been called
    teardownCalls,   \* number of db.teardown() invocations
    teardownPending, \* teardown promises not yet settled
    teardownResult,  \* how the first settled teardown ended: "none", "resolved", "rejected"
    exited,          \* process.exit has been called
    exitCode,        \* the status passed to the operating system (meaningful when exited)
    counter,         \* httpRequestCounter: value per method label
    entered,         \* history: API requests that entered the server, per method
    nreq,            \* requests accepted so far
    inflight,        \* requests accepted and not yet answered
    items,           \* the persisted item collection
    nextId,          \* the persistence layer's identifier generator
    log,             \* history: the item routes' responses, in the order sent
    lastStatus,      \* status code of the latest response (0: none yet)
    lastMetrics      \* counter values in the latest /metrics body

vars == <<initCalls, initState, listening, logged, teardownCalls, teardownPending,
          teardownResult, exited, exitCode, counter, entered, nreq, inflight,
          items, nextId, log, lastStatus, lastMetrics>>

lifecycleVars == <<initCalls, initState, listening, logged, teardownCalls,
                   teardownPending, teardownResult, exited, exitCode>>
requestVars == <<counter, entered, nreq, inflight, items, nextId, log, lastStatus,
                 lastMetrics>>

----------------------------------------------------------------------------
\* Request inputs.  A path is the sequence of its characters.

Methods == {"GET", "POST", "PUT", "DELETE"}
Signals == {"SIGINT", "SIGTERM", "SIGUSR2"}

PathGreeting == <<"/","a","p","i","/","g","r","e","e","t","i","n","g">>
PathItems    == <<"/","a","p","i","/","i","t","e","m","s">>
PathItemsUp  == <<"/","A","P","I","/","i","t","e","m","s">>
PathItem1    == <<"/","a","p","i","/","i","t","e","m","s","/","1">>
PathItem2    == <<"/","a","p","i","/","i","t","e","m","s","/","2">>
PathApix     == <<"/","a","p","i","x">>
PathMetrics  == <<"/","m","e","t","r","i","c","s">>
PathIndex    == <<"/","i","n","d","e","x",".","h","t","m","l">>

Req(m, p, b) == [method |-> m, path |-> p, body |-> b]

\* body: "none", "valid" (well-formed JSON payload) or "malformed" (not JSON).
Requests ==
    { Req("GET", PathGreeting, "none"),
      Req("GET", PathItems, "none"),
      Req("GET", PathItemsUp, "none"),
      Req("POST", PathItems, "valid"),
      Req("POST", PathItems, "malformed"),
      Req("PUT", PathItem1, "valid"),
      Req("PUT", PathItem2, "valid"),
      Req("DELETE", PathItem1, "none"),
      Req("DELETE", PathItem2, "none"),
      Req("GET", PathApix, "none"),
      Req("GET", PathMetrics, "none"),
      Req("POST", PathMetrics, "valid"),
      Req("GET", PathIndex, "none") }

----------------------------------------------------------------------------
\* String.prototype.startsWith: character by character, case-sensitive.
startsWith(s, prefix) ==
    /\ Len(s) >= Len(prefix)
    /\ \A i \in 1..Len(prefix) : s[i] = prefix[i]

ApiPrefix == <<"/","a","p","i">>

\* An increment that ignores the label and raises every series.
incEvery(c, m) == [x \in DOMAIN c |-> c[x] + 1]
\* Counter.inc({method}) of prom-client: the labelled value grows by one.
incLost(c, m) == [c EXCEPT ![m] = 1]
inc(c, m) == [c EXCEPT ![m] = @ + 1]

\* The first middleware (app.use without a mount path): counts API requests.
metricsMiddlewareAll(c, req) == inc(c, req.method)
metricsMiddleware(c, req) ==
    IF startsWith(req.path, ApiPrefix) THEN inc(c, req.method) ELSE c

\* register.metrics() runs in two parts.  Called by the handler, it collects
\* the counter's samples: a labelled sample exists once its label has been
\* incremented, so a label with value 0 has none.
samples(c) == {m \in Methods : c[m] > 0}

\* After its await it renders the collected samples into the exposition
\* body.  A sample is the counter's own entry, so the body shows the value
\* the entry has when it is rendered.
metrics(c, collected) == { <<m, c[m]>> : m \in collected }

----------------------------------------------------------------------------
\* Express route matching: case-insensitive, one optional trailing slash.

Lower(ch) ==
    CASE ch = "A" -> "a" [] ch = "P" -> "p" [] ch = "I" -> "i" [] OTHER -> ch

Normalise(p) ==
    LET q == IF Len(p) > 1 /\ p[Len(p)] = "/" THEN SubSeq(p, 1, Len(p) - 1) ELSE p
    IN  [i \in 1..Len(q) |-> Lower(q[i])]

\* The segments of a path that begins with "/".
Segments(p) ==
    LET slashes == {i \in 1..Len(p) : p[i] = "/"}
        start(k) == CHOOSE s \in slashes : Cardinality({j \in slashes : j <= s}) = k
        stop(s) == IF \E j \in slashes : j > s
                   THEN CHOOSE j \in slashes : j > s /\ \A l \in slashes : l > s => j <= l
                   ELSE Len(p) + 1
    IN  [k \in 1..Cardinality(slashes) |-> SubSeq(p, start(k) + 1, stop(start(k)) - 1)]

SegApi == <<"a","p","i">>
SegItems == <<"i","t","e","m","s">>
SegGreeting == <<"g","r","e","e","t","i","n","g">>
SegMetrics == <<"m","e","t","r","i","c","s">>

\* The handler express dispatches to, in registration order; "none" when no
\* route matches (the final handler then answers 404).
Route(req) ==
    LET s == Segments(Normalise(req.path)) IN
    CASE req.method = "GET" /\ s = <<SegMetrics>> -> "metrics"
      [] req.method = "GET" /\ s = <<SegApi, SegGreeting>> -> "getGreeting"
      [] req.method = "GET" /\ s = <<SegApi, SegItems>> -> "getItems"
      [] req.method = "POST" /\ s = <<SegApi, SegItems>> -> "addItem"
      [] req.method = "PUT" /\ Len(s) = 3 /\ SubSeq(s, 1, 2) = <<SegApi, SegItems>>
            /\ s[3] # <<>> -> "updateItem"
      [] req.method = "DELETE" /\ Len(s) = 3 /\ SubSeq(s, 1, 2) = <<SegApi, SegItems>>
            /\ s[3] # <<>> -> "deleteItem"
      [] OTHER -> "none"

\* req.params.id of the two /api/items/:id routes.
ParamId(req) == Segments(Normalise(req.path))[3]

\* The paths express.static finds a file for under __dirname + '/static':
\* the source tree has no such directory, so every lookup falls through.
StaticFiles == {}

----------------------------------------------------------------------------
\* The persistence module and the route handlers (./persistence, ./routes/*).

Digit(n) ==
    CASE n = 1 -> "1" [] n = 2 -> "2" [] n = 3 -> "3" [] n = 4 -> "4" [] n = 5 -> "5"
      [] n = 6 -> "6" [] n = 7 -> "7" [] n = 8 -> "8" [] OTHER -> "9"

\* The identifier the persistence layer generates for the n-th created item.
IdStr(n) == <<Digit(n)>>

Ids(its) == {x.id : x \in its}

\* The payload of a well-formed POST and the fields of a well-formed PUT.
NewDescription == "buy milk"
UpdateFields == [completed |-> TRUE]

listItems(its) == its

newItem(n, description) ==
    [id |-> IdStr(n), description |-> description, completed |-> FALSE]

addItemNoStore(its, n, description) == its
addItem(its, n, description) == its \cup {newItem(n, description)}

\* updateItem(id, fields): partial merge of the submitted fields into the
\* item with this id; fails with NotFound when no item has it.
updateItem(its, id, fields) ==
    IF id \in Ids(its)
    THEN [err |-> "none",
          items |-> {IF x.id = id THEN [x EXCEPT !.completed = fields.completed] ELSE x
                        : x \in its}]
    ELSE [err |-> "NotFound", items |-> its]

\* deleteItem(id): removes the item with this id; fails with NotFound when
\* no item has it.
deleteItemSilent(its, id) == [err |-> "none", items |-> {x \in its : x.id # id}]
deleteItem(its, id) ==
    IF id \in Ids(its)
    THEN [err |-> "none", items |-> {x \in its : x.id # id}]
    ELSE [err |-> "NotFound", items |-> its]

\* The status a handler answers for a persistence result.
StatusOf(err, success) == IF err = "NotFound" THEN 404 ELSE success

\* A response of an item route, as kept in the log.
Response(handler, id, status, body) ==
    [handler |-> handler, id |-> id, status |-> status, body |-> body]

----------------------------------------------------------------------------
\* No /metrics answer is owed: the promise reactions of the current turn of
\* the event loop have run, and a signal or an I/O completion can be taken.
Idle == \A r \in inflight : r.stage # "render"

\* The lifecycle state of section 4.4, read off the program's variables.
State ==
    IF exited THEN "STOPPED"
    ELSE IF teardownCalls > 0 THEN "DRAINING"
    ELSE IF listening THEN "LISTENING"
    ELSE "STARTING"

\* app.listen called by the module body instead of by the .then of db.init().
InitListensEarly ==
    /\ initCalls = 1
    /\ initState = "pending"
    /\ listening = TRUE
    /\ logged = FALSE
    /\ teardownCalls = 0
    /\ teardownPending = 0
    /\ teardownResult = "none"
    /\ exited = FALSE
    /\ exitCode = 0
    /\ counter = [m \in Methods |-> 0]
    /\ entered = [m \in Methods |-> 0]
    /\ nreq = 0
    /\ inflight = {}
    /\ items = {}
    /\ nextId = 1
    /\ log = <<>>
    /\ lastStatus = 0
    /\ lastMetrics = {}

\* After the module body has run: db.init() has been called once, the signal
\* handlers are registered, nothing has settled.
Init ==
    /\ initCalls = 1
    /\ initState = "pending"
    /\ listening = FALSE
    /\ logged = FALSE
    /\ teardownCalls = 0
    /\ teardownPending = 0
    /\ teardownResult = "none"
    /\ exited = FALSE
    /\ exitCode = 0
    /\ counter = [m \in Methods |-> 0]
    /\ entered = [m \in Methods |-> 0]
    /\ nreq = 0
    /\ inflight = {}
    /\ items = {}
    /\ nextId = 1
    /\ log = <<>>
    /\ lastStatus = 0
    /\ lastMetrics = {}

\* db.init() resolves: .then(() => app.listen(3000, ...)).
InitResolved ==
    /\ ~exited
    /\ initState = "pending"
    /\ initState' = "resolved"
    /\ listening' = TRUE
    /\ UNCHANGED <<initCalls, logged, teardownCalls, teardownPending, teardownResult,
                   exited, exitCode>>
    /\ UNCHANGED requestVars

\* db.init() rejects: the rejection passes through .then to
\* .catch((err) => { console.error(err); process.exit(1); }).
InitRejectedRetry ==
    /\ ~exited
    /\ initState = "pending"
    /\ logged' = TRUE
    /\ initCalls' = initCalls + 1
    /\ UNCHANGED <<initState, listening, teardownCalls, teardownPending,
                   teardownResult, exited, exitCode>>
    /\ UNCHANGED requestVars
InitRejectedListen ==
    /\ ~exited
    /\ initState = "pending"
    /\ initState' = "rejected"
    /\ logged' = TRUE
    /\ listening' = TRUE
    /\ UNCHANGED <<initCalls, teardownCalls, teardownPending, teardownResult,
                   exited, exitCode>>
    /\ UNCHANGED requestVars
InitRejected ==
    /\ ~exited
    /\ initState = "pending"
    /\ initState' = "rejected"
    /\ logged' = TRUE
    /\ exited' = TRUE
    /\ exitCode' = 1
    /\ UNCHANGED <<initCalls, listening, teardownCalls, teardownPending, teardownResult>>
    /\ UNCHANGED requestVars

\* A shutdown guarded against re-entry and against the start-up phase.
gracefulShutdownGuarded ==
    IF teardownCalls > 0 \/ ~listening
    THEN UNCHANGED vars
    ELSE /\ teardownCalls' = teardownCalls + 1
         /\ teardownPending' = teardownPending + 1
         /\ UNCHANGED <<initCalls, initState, listening, logged, teardownResult, exited,
                        exitCode>>
         /\ UNCHANGED requestVars

\* register.resetMetrics() added to the shutdown path.
gracefulShutdownResetsMetrics ==
    /\ teardownCalls' = teardownCalls + 1
    /\ teardownPending' = teardownPending + 1
    /\ counter' = [m \in Methods |-> 0]
    /\ UNCHANGED <<initCalls, initState, listening, logged, teardownResult, exited,
                   exitCode>>
    /\ UNCHANGED <<entered, nreq, inflight, items, nextId, log, lastStatus, lastMetrics>>

\* gracefulShutdown: db.teardown() is called; its promise is pending.
gracefulShutdown ==
    /\ teardownCalls' = teardownCalls + 1
    /\ teardownPending' = teardownPending + 1
    /\ UNCHANGED <<initCalls, initState, listening, logged, teardownResult, exited,
                   exitCode>>
    /\ UNCHANGED requestVars

\* The listener registered for each signal by process.on.
OnSignalUsr2Exits(sig) ==
    CASE sig = "SIGINT" -> gracefulShutdown
      [] sig = "SIGTERM" -> gracefulShutdown
      [] sig = "SIGUSR2" ->
            /\ exited' = TRUE
            /\ exitCode' = 0
            /\ UNCHANGED <<initCalls, initState, listening, logged, teardownCalls,
                           teardownPending, teardownResult>>
            /\ UNCHANGED requestVars
OnSignal(sig) ==
    CASE sig = "SIGINT" -> gracefulShutdown
      [] sig = "SIGTERM" -> gracefulShutdown
      [] sig = "SIGUSR2" -> gracefulShutdown

\* A shutdown that waits until every accepted request has been answered.
SignalDrainsFirst(sig) ==
    /\ ~exited
    /\ Idle
    /\ teardownCalls < MaxSignals
    /\ inflight = {}
    /\ OnSignal(sig)

\* The operating system delivers a termination signal to the running process.
Signal(sig) ==
    /\ ~exited
    /\ Idle
    /\ teardownCalls < MaxSignals
    /\ OnSignal(sig)

\* A shutdown that reports a failed teardown in the exit status.
TeardownSettledStatus(outcome) ==
    /\ ~exited
    /\ Idle
    /\ teardownPending > 0
    /\ teardownPending' = teardownPending - 1
    /\ teardownResult' = outcome
    /\ exited' = TRUE
    /\ exitCode' = IF outcome = "rejected" THEN 1 ELSE 0
    /\ UNCHANGED <<initCalls, initState, listening, logged, teardownCalls>>
    /\ UNCHANGED requestVars

\* A db.teardown() promise settles: .catch(() => {}) swallows a rejection and
\* .then(() => process.exit()) ends the process with the default status.
TeardownSettledThrows(outcome) ==
    /\ ~exited
    /\ Idle
    /\ teardownPending > 0
    /\ teardownPending' = teardownPending - 1
    /\ teardownResult' = IF teardownResult = "none" THEN outcome ELSE teardownResult
    /\ exited' = (outcome = "resolved")
    /\ exitCode' = 0
    /\ UNCHANGED <<initCalls, initState, listening, logged, teardownCalls>>
    /\ UNCHANGED requestVars
TeardownSettled(outcome) ==
    /\ ~exited
    /\ Idle
    /\ teardownPending > 0
    /\ teardownPending' = teardownPending - 1
    /\ teardownResult' = outcome
    /\ exited' = TRUE
    /\ exitCode' = 0
    /\ UNCHANGED <<initCalls, initState, listening, logged, teardownCalls>>
    /\ UNCHANGED requestVars

----------------------------------------------------------------------------
\* Requests.  The server accepts connections from app.listen until the
\* process exits; gracefulShutdown does not close the listener.

InFlight(n, req, stage) ==
    [id |-> n, method |-> req.method, path |-> req.path, body |-> req.body,
     stage |-> stage, samples |-> {}]

\* A GET /metrics whose handler has called register.metrics() and awaits it.
Rendering(n, req, collected) ==
    [InFlight(n, req, "render") EXCEPT !.samples = collected]

\* Whether the path begins with the four characters "/api".
HasApiPrefix(p) == Len(p) >= 4 /\ SubSeq(p, 1, 4) = <<"/","a","p","i">>

\* express.json() calls next() at once for a request without a body, and
\* express.static() calls next() at once for a method other than GET and
\* HEAD: such a request reaches its route within the accepting callback.
Synchronous(req) == req.body = "none" /\ req.method \notin {"GET", "HEAD"}

\* The request as it stands when the accepting callback returns, c being
\* the counter it has seen: a GET /metrics awaits register.metrics(); a
\* request handed on synchronously to a route awaits the persistence call
\* of its handler; any other waits for its body or for the static lookup.
Accepted(n, req, c) ==
    IF Route(req) = "metrics" THEN Rendering(n, req, samples(c))
    ELSE IF Synchronous(req) /\ Route(req) # "none" THEN InFlight(n, req, "db")
    ELSE InFlight(n, req, "parse")

\* The metrics middleware registered after the routes: a request that a
\* route handles never reaches it.
RequestRoutedFirst(req) ==
    /\ listening
    /\ ~exited
    /\ nreq < MaxReq
    /\ nreq' = nreq + 1
    /\ counter' = IF Route(req) = "none" THEN metricsMiddleware(counter, req) ELSE counter
    /\ entered' = IF HasApiPrefix(req.path)
                  THEN [entered EXCEPT ![req.method] = @ + 1]
                  ELSE entered
    /\ inflight' = inflight \cup {Accepted(nreq', req, counter')}
    /\ UNCHANGED <<items, nextId, log, lastMetrics, lastStatus>>
    /\ UNCHANGED lifecycleVars

\* A request arrives and runs the synchronous head of the middleware chain:
\* the metrics middleware, then the /metrics route, whose async handler sets
\* the content type, calls register.metrics() and returns at its await; any
\* other request goes on to express.json() and express.static(), which hand
\* over asynchronously when there is a body to read or a file to look up,
\* and otherwise call the route handler at once.
Request(req) ==
    /\ listening
    /\ ~exited
    /\ nreq < MaxReq
    /\ nreq' = nreq + 1
    /\ counter' = metricsMiddleware(counter, req)
    /\ entered' = IF HasApiPrefix(req.path)
                  THEN [entered EXCEPT ![req.method] = @ + 1]
                  ELSE entered
    /\ inflight' = inflight \cup {Accepted(nreq', req, counter')}
    /\ UNCHANGED <<items, nextId, log, lastMetrics, lastStatus>>
    /\ UNCHANGED lifecycleVars

\* The await of the /metrics handler of request r resumes:
\* res.end(await register.metrics()) sends the body.
MetricsEnd(r) ==
    /\ ~exited
    /\ r \in inflight
    /\ r.stage = "render"
    /\ inflight' = inflight \ {r}
    /\ lastMetrics' = metrics(counter, r.samples)
    /\ lastStatus' = 200
    /\ UNCHANGED <<counter, entered, nreq, items, nextId, log>>
    /\ UNCHANGED lifecycleVars

\* The body parser and the static lookup have finished for request r:
\* malformed JSON is answered 400 by the error handler, an existing static
\* file is served to a GET, and otherwise the route table decides.  The
\* request stream's 'end' is delivered ahead of pending promise reactions,
\* so this can happen while a /metrics answer is owed.
Dispatch(r) ==
    /\ ~exited
    /\ r \in inflight
    /\ r.stage = "parse"
    /\ IF r.body = "malformed"
       THEN /\ lastStatus' = 400
            /\ inflight' = inflight \ {r}
       ELSE IF r.method = "GET" /\ r.path \in StaticFiles
       THEN /\ lastStatus' = 200
            /\ inflight' = inflight \ {r}
       ELSE IF Route(r) = "getGreeting"
       THEN /\ lastStatus' = 200
            /\ inflight' = inflight \ {r}
       ELSE IF Route(r) = "none"
       THEN /\ lastStatus' = 404
            /\ inflight' = inflight \ {r}
       ELSE /\ inflight' = (inflight \ {r}) \cup {[r EXCEPT !.stage = "db"]}
            /\ UNCHANGED lastStatus
    /\ UNCHANGED <<counter, entered, nreq, items, nextId, log, lastMetrics>>
    /\ UNCHANGED lifecycleVars

\* The persistence call of request r's handler settles and the handler
\* answers.  ok = FALSE is a call that fails in the store (answered 5xx,
\* nothing changed); a call of updateItem or deleteItem that the store
\* carries out fails with NotFound when the id is absent (answered 404).
\* How soon a persistence call settles is the
\* persistence module's affair (a call on a closed connection fails at
\* once), so this too can happen while a /metrics answer is owed.
DbSettled(r, ok) ==
    /\ ~exited
    /\ r \in inflight
    /\ r.stage = "db"
    /\ inflight' = inflight \ {r}
    /\ CASE Route(r) = "getItems" ->
              /\ lastStatus' = IF ok THEN 200 ELSE 500
              /\ log' = Append(log, Response("getItems", <<>>, lastStatus',
                                             IF ok THEN listItems(items) ELSE {}))
              /\ UNCHANGED <<items, nextId>>
         [] Route(r) = "addItem" ->
              /\ lastStatus' = IF ok THEN 201 ELSE 500
              /\ items' = IF ok THEN addItem(items, nextId, NewDescription) ELSE items
              /\ nextId' = IF ok THEN nextId + 1 ELSE nextId
              /\ log' = Append(log, Response("addItem", IF ok THEN IdStr(nextId) ELSE <<>>,
                                             lastStatus',
                                             IF ok THEN {newItem(nextId, NewDescription)}
                                             ELSE {}))
         [] Route(r) = "updateItem" ->
              /\ LET res == updateItem(items, ParamId(r), UpdateFields) IN
                 /\ lastStatus' = IF ok THEN StatusOf(res.err, 200) ELSE 500
                 /\ items' = IF ok THEN res.items ELSE items
              /\ log' = Append(log, Response("updateItem", ParamId(r), lastStatus', {}))
              /\ UNCHANGED nextId
         [] Route(r) = "deleteItem" ->
              /\ LET res == deleteItem(items, ParamId(r)) IN
                 /\ lastStatus' = IF ok THEN StatusOf(res.err, 200) ELSE 500
                 /\ items' = IF ok THEN res.items ELSE items
              /\ log' = Append(log, Response("deleteItem", ParamId(r), lastStatus', {}))
              /\ UNCHANGED nextId
    /\ UNCHANGED <<counter, entered, nreq, lastMetrics>>
    /\ UNCHANGED lifecycleVars

----------------------------------------------------------------------------
Next ==
    \/ InitResolved
    \/ InitRejected
    \/ \E sig \in Signals : Signal(sig)
    \/ \E outcome \in {"resolved", "rejected"} : TeardownSettled(outcome)
    \/ \E req \in Requests : Request(req)
    \/ \E r \in inflight : MetricsEnd(r)
    \/ \E r \in inflight : Dispatch(r)
    \/ \E r \in inflight, ok \in BOOLEAN : DbSettled(r, ok)

Spec == Init /\ [][Next]_vars

\* Every db.teardown() promise eventually settles, and the promise reaction
\* of a /metrics handler runs once the current callback has returned.
FairSpec ==
    /\ Spec
    /\ WF_vars(\E outcome \in {"resolved", "rejected"} : TeardownSettled(outcome))
    /\ WF_vars(\E r \in inflight : MetricsEnd(r))

----------------------------------------------------------------------------
\* Properties.

\* The counter after one request with this method and path has been counted.
Counted(c, m, p) == [c EXCEPT ![m] = @ + (IF HasApiPrefix(p) THEN 1 ELSE 0)]

\* C1: every request raises the count of its method by exactly 1 when its
\* path starts with "/api", whatever happens to it afterwards, and by 0
\* otherwise (GET /metrics and static paths included); a step that accepts
\* no request leaves the counter alone.
C1_CounterCountsApiRequests ==
    [][ /\ \A req \in Requests :
              Request(req) => counter' = Counted(counter, req.method, req.path)
        /\ nreq' = nreq => counter' = counter ]_vars

\* An API request and a /metrics read have both been handled: the body shows
\* one GET and nothing for the read itself.
C1_Witness ==
    /\ nreq = 2
    /\ lastMetrics = {<<"GET", 1>>}
    /\ counter = [m \in Methods |-> IF m = "GET" THEN 1 ELSE 0]

\* C2: the listener is bound only after db.init() has resolved, and a failed
\* db.init() is logged and ends the process with status 1 without the
\* listener ever having been bound.
C2_ListenOnlyAfterInit ==
    /\ listening => initState = "resolved"
    /\ initState = "rejected" => logged /\ exited /\ exitCode = 1 /\ ~listening

\* db.init() has failed and the process has gone.
C2_Witness == initState = "rejected" /\ exited /\ exitCode = 1 /\ teardownCalls = 0

\* C3: once gracefulShutdown has called db.teardown(), the process exits when
\* the teardown settles, resolved or rejected alike, so with every teardown
\* eventually settling the process eventually is STOPPED.
C3_ExitAfterTeardownSettles ==
    /\ [](teardownResult # "none" => exited)
    /\ (teardownCalls > 0) ~> (State = "STOPPED")

\* A teardown has rejected and the process has exited all the same.
C3_Witness == teardownResult = "rejected" /\ exited /\ initState = "resolved"

\* C4: DRAINING is entered only from LISTENING, and the listener is never
\* bound once a termination signal has started DRAINING.
C4_LifecycleForwardOnly ==
    [][ /\ (State' = "DRAINING" /\ State # "DRAINING") => State = "LISTENING"
        /\ (State = "DRAINING" /\ ~listening) => ~listening' ]_vars

\* C5: no increment is lost under concurrency: the count of each method is
\* the number of API requests with that method that have entered the server,
\* however they interleave with each other and with /metrics reads.
C5_NoLostIncrement == \A m \in Methods : counter[m] = entered[m]

\* Two API requests with the same method are in flight together and both
\* have been counted.
C5_Witness ==
    \E r1, r2 \in inflight :
        /\ r1.id # r2.id
        /\ r1.method = r2.method
        /\ HasApiPrefix(r1.path) /\ HasApiPrefix(r2.path)
        /\ counter[r1.method] = 2

\* C6: db.init() is invoked exactly once in the life of the process: not
\* again after it failed, not again after a termination signal.
C6_InitOnce == initCalls = 1

\* A termination signal has arrived and db.init() has failed.
C6_Witness == initState = "rejected" /\ teardownCalls > 0 /\ initCalls = 1

\* C7: the three signals behave alike: in every state, a step that delivers
\* one of them is also the step that delivers any other.
C7_SignalsAlike ==
    [][ \A a, b \in Signals : Signal(a) => Signal(b) ]_vars

\* A signal has been delivered to the listening server; teardown is pending.
C7_Witness == listening /\ ~exited /\ teardownCalls = 1 /\ teardownPending = 1

\* C8: no step lowers the count of any method.
C8_CounterMonotone ==
    [][ \A m \in Methods : counter'[m] >= counter[m] ]_vars

\* Two requests have been counted and a signal has been delivered since.
C8_Witness ==
    /\ teardownCalls > 0
    /\ counter["DELETE"] = 1
    /\ counter["POST"] = 1

\* C9: a GET /api/items answered after a POST /api/items was answered 201
\* returns a collection holding the created item under the identifier the
\* server assigned (unless a DELETE of that identifier succeeded in between).
C9_PostThenGet ==
    \A i, j \in 1..Len(log) :
        ( /\ i < j
          /\ log[i].handler = "addItem" /\ log[i].status = 201
          /\ log[j].handler = "getItems" /\ log[j].status = 200
          /\ ~ \E k \in (i + 1)..(j - 1) :
                  /\ log[k].handler = "deleteItem"
                  /\ log[k].status = 200
                  /\ log[k].id = log[i].id )
        => /\ log[i].id # <<>>
           /\ \E x \in log[j].body :
                 /\ x.id = log[i].id
                 /\ x.description = NewDescription

\* A POST answered 201 and then a GET answered 200.
C9_Witness ==
    /\ Len(log) = 2
    /\ log[1].handler = "addItem" /\ log[1].status = 201
    /\ log[2].handler = "getItems" /\ log[2].status = 200

\* Request r is a PUT or DELETE for an identifier that is not in the
\* collection, and this step answers it.
AbsentIdAnswered(r) ==
    /\ r.stage = "db"
    /\ Route(r) \in {"updateItem", "deleteItem"}
    /\ ParamId(r) \notin Ids(items)
    /\ r \notin inflight'

Unanswered(m) == {r \in inflight : r.method = m /\ HasApiPrefix(r.path)}

\* The value a /metrics body shows for a method (0 when it has no sample).
Shown(body, m) == IF \E s \in body : s[1] = m THEN (CHOOSE s \in body : s[1] = m)[2] ELSE 0

\* The API requests with this method whose handler awaits its persistence
\* call.
Awaiting(m) == {q \in Unanswered(m) : q.stage = "db"}

\* C11 as stated: the increment happens before routing: every unanswered
\* API request, whether still in the body parser or awaiting persistence,
\* is already in the count; any /metrics answer sent while API requests
\* await their persistence calls shows them all; and a request answered 400
\* or 500 stays counted.
C11_VisibleToAnyRender ==
    /\ [](\A m \in Methods : counter[m] >= Cardinality(Unanswered(m)))
    /\ [][ \A r \in inflight :
              (r.stage = "render" /\ r \notin inflight')
              => \A m \in Methods :
                    Shown(lastMetrics', m) >= Cardinality(Awaiting(m)) ]_vars
    /\ [][ \A r \in inflight :
              (r \notin inflight' /\ lastStatus' \in {400, 500} /\ HasApiPrefix(r.path))
              => counter'[r.method] = counter[r.method] /\ counter[r.method] >= 1 ]_vars

\* C11 as amended: the increment happens before routing: every unanswered
\* API request, whether still in the body parser or awaiting persistence,
\* is already in the count; a /metrics answer shows every API request that
\* was accepted before the /metrics request and is still unanswered; and a
\* request answered 400 or 500 stays counted.
C11_CountedBeforeRouting ==
    /\ [](\A m \in Methods : counter[m] >= Cardinality(Unanswered(m)))
    /\ [][ \A r \in inflight :
              (r.stage = "render" /\ r \notin inflight')
              => \A m \in Methods :
                    Shown(lastMetrics', m)
                        >= Cardinality({q \in Unanswered(m) : q.id < r.id}) ]_vars
    /\ [][ \A r \in inflight :
              (r \notin inflight' /\ lastStatus' \in {400, 500} /\ HasApiPrefix(r.path))
              => counter'[r.method] = counter[r.method] /\ counter[r.method] >= 1 ]_vars

\* A /metrics body rendered while a POST awaits its persistence call shows
\* that POST.
C11_Witness ==
    \E r \in inflight :
        /\ r.stage = "db"
        /\ r.method = "POST"
        /\ lastMetrics = {<<"POST", 1>>}


\* C12: requests are not drained on shutdown: while requests are unanswered
\* a termination signal can still be delivered and calls db.teardown() at
\* once, and neither the signal nor the exit answers or removes a request.
C12_NoDrainOnShutdown ==
    /\ []((~exited /\ Idle /\ teardownCalls < MaxSignals /\ inflight # {})
            => \A sig \in Signals :
                  ENABLED (Signal(sig) /\ teardownCalls' = teardownCalls + 1))
    /\ [][ (teardownCalls' # teardownCalls \/ exited' # exited)
              => inflight' = inflight ]_vars

\* The process has exited after a teardown while a handler was still
\* awaiting persistence and another request was still in the body parser.
C12_Witness ==
    /\ exited
    /\ teardownResult # "none"
    /\ \E r \in inflight : r.stage = "db"
    /\ \E r \in inflight : r.stage = "parse"


\* C13: a request with method m leaves the count of every other method as
\* it was.
C13_OtherLabelsUnchanged ==
    [][ \A req \in Requests :
            Request(req) => \A m \in Methods \ {req.method} : counter'[m] = counter[m] ]_vars

\* A GET and a PUT have been counted, POST and DELETE never.
C13_Witness ==
    counter = [m \in Methods |-> IF m \in {"GET", "PUT"} THEN 1 ELSE 0]

\* C14: no request is served before persistence is initialised: a request
\* accepted or counted implies that db.init() resolved and app.listen was
\* called.
C14_NoRequestBeforeInit ==
    (nreq > 0 \/ \E m \in Methods : counter[m] > 0)
        => initState = "resolved" /\ listening

\* The first request has been accepted and counted.
C14_Witness == nreq = 1 /\ counter["PUT"] = 1 /\ listening /\ initState = "resolved"


\* C15: gracefulShutdown has no guard: while the process runs, in the
\* start-up phase and during an earlier shutdown alike, each further signal
\* calls db.teardown() once more and leaves one more promise pending; no
\* teardown settles without ending the process, so the process exits at the
\* first one that settles, the others still pending.
C15_ShutdownUnguarded ==
    /\ (~exited /\ Idle /\ teardownCalls < MaxSignals)
          => \A sig \in Signals :
                ENABLED ( /\ Signal(sig)
                          /\ teardownCalls' = teardownCalls + 1
                          /\ teardownPending' = teardownPending + 1 )
    /\ ~exited => teardownPending = teardownCalls /\ teardownResult = "none"
    /\ teardownResult # "none" => exited /\ teardownPending + 1 = teardownCalls

\* Two signals arrived while db.init() was pending; the process exited when
\* one of the two teardown calls settled, the other still pending.
C15_Witness ==
    /\ exited
    /\ initState = "pending"
    /\ teardownCalls = 2
    /\ teardownPending = 1

\* C16: the process ends in one of two ways: the start-up failure path with
\* status 1, or the shutdown path with status 0 whether the teardown
\* resolved or rejected.
C16_ExitStatus ==
    exited =>
        \/ initState = "rejected" /\ teardownResult = "none" /\ exitCode = 1
        \/ initState # "rejected" /\ teardownResult \in {"resolved", "rejected"}
              /\ exitCode = 0

\* A shutdown whose teardown rejected ended with status 0 before db.init()
\* settled.
C16_Witness ==
    /\ exited
    /\ exitCode = 0
    /\ teardownResult = "rejected"
    /\ initState = "pending"
    /\ teardownCalls = 1

====
